---- MODULE Spec2Model ----
(***************************************************************************)
(* Model of jp_tutor.py: the text normalizer, the three answer checkers    *)
(* (check_greeting, check_self_intro, check_vowels) and the interactive    *)
(* Session.ask / run_lesson_one retry loop.                                *)
(*                                                                         *)
(* A Python str is a sequence of Unicode code points; a character is its   *)
(* code point (a natural number, written in hexadecimal).                  *)
(***************************************************************************)
EXTENDS Integers, Sequences, FiniteSets

(* ------------------------------ strings ------------------------------- *)

RECURSIVE Concat(_)
\* "".join(parts) for a sequence of strings
Concat(parts) ==
    IF parts = <<>> THEN <<>> ELSE Head(parts) \o Concat(Tail(parts))

\* s[i:] with a 1-based start
From(s, i) == SubSeq(s, i, Len(s))

\* s.startswith(p)
StartsWith(s, p) == Len(s) >= Len(p) /\ SubSeq(s, 1, Len(p)) = p

\* The characters Python's regex class \s and str.strip() treat as white
\* space, among the characters the model uses: tab, line feed, space and the
\* ideographic space U+3000.
IsSpace(c) == c \in {\H09, \H0A, \H20, \H3000}

\* The number of leading white-space characters of s (a greedy \s*).
RECURSIVE SpaceRun(_)
SpaceRun(s) ==
    IF s # <<>> /\ IsSpace(Head(s)) THEN 1 + SpaceRun(Tail(s)) ELSE 0

AllSpace(s) == \A i \in 1..Len(s) : IsSpace(s[i])

(* --------------------------- normalize_nfkc --------------------------- *)

\* The compatibility decomposition of one character (unicodedata, NFKC
\* step 1), for the characters of the model's alphabets: half-width
\* katakana, full-width Latin letters, the ideographic space, the
\* half-width full stop, and U+01F0 (j with caron), which decomposes
\* canonically to j + U+030C.  Every other character of the alphabets is
\* its own decomposition.
NfkcDecomp(c) ==
    CASE c = \HFF7A -> <<\H30B3>>          \* half-width ko
      [] c = \HFF9D -> <<\H30F3>>          \* half-width n
      [] c = \HFF86 -> <<\H30CB>>          \* half-width ni
      [] c = \HFF81 -> <<\H30C1>>          \* half-width chi
      [] c = \HFF8A -> <<\H30CF>>          \* half-width ha
      [] c = \HFF71 -> <<\H30A2>>          \* half-width a
      [] c = \HFF72 -> <<\H30A4>>          \* half-width i
      [] c = \HFF73 -> <<\H30A6>>          \* half-width u
      [] c = \HFF74 -> <<\H30A8>>          \* half-width e
      [] c = \HFF75 -> <<\H30AA>>          \* half-width o
      [] c = \HFF61 -> <<\H3002>>          \* half-width ideographic full stop
      [] c = \H3000 -> <<\H20>>            \* ideographic space
      [] c \in \HFF21..\HFF3A -> <<c - \HFEE0>>   \* full-width A-Z
      [] c \in \HFF41..\HFF5A -> <<c - \HFEE0>>   \* full-width a-z
      [] c = \H01F0 -> <<\H6A, \H030C>>
      [] OTHER -> <<c>>

\* The combining marks of the alphabets (canonical combining class 230).
IsMark(c) == c = \H030C

\* Canonical composition pairs among the characters of the alphabets that
\* hold the mark: j + caron composes to U+01F0; J + caron and kana + caron
\* have no precomposed form.
HasComposite(a, b) == a = \H6A /\ b = \H030C
Composite(a, b) == \H01F0

RECURSIVE NfkcDecompose(_)
NfkcDecompose(s) ==
    IF s = <<>> THEN <<>> ELSE NfkcDecomp(Head(s)) \o NfkcDecompose(Tail(s))

\* Canonical composition, left to right: a mark composes with the character
\* before it when that character is the starter and the pair has a
\* composite; a mark left in place blocks later marks of the same class.
RECURSIVE NfkcCompose(_, _)
NfkcCompose(out, rest) ==
    IF rest = <<>> THEN out
    ELSE LET c == Head(rest)
             n == Len(out)
         IN  IF IsMark(c) /\ n > 0 /\ HasComposite(out[n], c)
             THEN NfkcCompose(SubSeq(out, 1, n - 1) \o <<Composite(out[n], c)>>,
                              Tail(rest))
             ELSE NfkcCompose(Append(out, c), Tail(rest))

normalize_nfkc(text) == NfkcCompose(<<>>, NfkcDecompose(text))

(* ------------------------ katakana_to_hiragana ------------------------ *)

KataToHiraChar(c) ==
    IF \H30A1 <= c /\ c <= \H30F3 THEN c - \H60
    ELSE IF c = \H30F5 THEN \H3095
    ELSE IF c = \H30F6 THEN \H3096
    ELSE c

katakana_to_hiragana(text) == [i \in 1..Len(text) |-> KataToHiraChar(text[i])]

(* ------------------------------ str.lower ----------------------------- *)

LowerChar(c) == IF \H41 <= c /\ c <= \H5A THEN c + \H20 ELSE c

lower(text) == [i \in 1..Len(text) |-> LowerChar(text[i])]

to_hiragana_lower(text) == lower(katakana_to_hiragana(normalize_nfkc(text)))

(* -------------------- collapse_spaces / strip ------------------------- *)

\* str.strip(): drop leading and trailing white space
RECURSIVE RStrip(_)
RStrip(s) ==
    IF s # <<>> /\ IsSpace(s[Len(s)]) THEN RStrip(SubSeq(s, 1, Len(s) - 1)) ELSE s

strip(s) == RStrip(From(s, SpaceRun(s) + 1))

\* re.sub(r"\s+", " ", text): every run of white space becomes one space
RECURSIVE SubSpaceRuns(_)
SubSpaceRuns(s) ==
    IF s = <<>> THEN <<>>
    ELSE IF IsSpace(Head(s))
         THEN <<\H20>> \o SubSpaceRuns(From(s, SpaceRun(s) + 1))
         ELSE <<Head(s)>> \o SubSpaceRuns(Tail(s))

collapse_spaces(text) == strip(SubSpaceRuns(text))

\* re.sub(r"\s+", "", text)
strip_all_spaces(text) == SelectSeq(text, LAMBDA c : ~IsSpace(c))

\* re.sub(r"[^a-z]", "", text)
KeepLatinLower(text) == SelectSeq(text, LAMBDA c : \H61 <= c /\ c <= \H7A)

(* ------------------------------ the words ----------------------------- *)

HA == \H306F                                   \* hiragana ha, the topic marker
KONNICHIHA == <<\H3053, \H3093, \H306B, \H3061, \H306F>>
KONNICHIWA_KANA == <<\H3053, \H3093, \H306B, \H3061, \H308F>>
KONNICHIWA_ROMAJI == <<\H6B, \H6F, \H6E, \H6E, \H69, \H63, \H68, \H69, \H77, \H61>>
WATASHI == <<\H308F, \H305F, \H3057>>
WATASHI_KANJI == <<\H79C1>>
BOKU == <<\H307C, \H304F>>
WATAKUSHI == <<\H308F, \H305F, \H304F, \H3057>>
DESU == <<\H3067, \H3059>>
WATASHI_ROMAJI == <<\H77, \H61, \H74, \H61, \H73, \H68, \H69>>
BOKU_ROMAJI == <<\H62, \H6F, \H6B, \H75>>
WATAKUSHI_ROMAJI == <<\H77, \H61, \H74, \H61, \H6B, \H75, \H73, \H68, \H69>>
WA_ROMAJI == <<\H77, \H61>>
DESU_ROMAJI == <<\H64, \H65, \H73, \H75>>
AIUEO_ROMAJI == <<\H61, \H69, \H75, \H65, \H6F>>
\* target = ["a", "i", "u", "e", "o"] in hiragana, one string per vowel
target == << <<\H3042>>, <<\H3044>>, <<\H3046>>, <<\H3048>>, <<\H304A>> >>

\* Optional[str] None: a value no string equals
None == <<-1>>

(* --------------------------- check_greeting --------------------------- *)

\* check_greeting with the romaji comparison made whatever allow_romaji says
check_greeting_ignores_flag(answer, allow_romaji) ==
    LET hira_nospace == strip_all_spaces(to_hiragana_lower(answer))
        rom == KeepLatinLower(lower(normalize_nfkc(answer)))
    IN  IF hira_nospace = KONNICHIHA
        THEN [passed |-> TRUE, msg |-> "good"]
        ELSE IF KONNICHIWA_KANA = hira_nospace
        THEN [passed |-> FALSE, msg |-> "wa_is_written_ha"]
        ELSE IF rom = KONNICHIWA_ROMAJI
        THEN [passed |-> TRUE, msg |-> "good"]
        ELSE [passed |-> FALSE, msg |-> "hint"]

\* check_greeting without the branch for the common mistake
check_greeting_no_mistake_branch(answer, allow_romaji) ==
    LET hira_nospace == strip_all_spaces(to_hiragana_lower(answer))
        rom == KeepLatinLower(lower(normalize_nfkc(answer)))
    IN  IF hira_nospace = KONNICHIHA
        THEN [passed |-> TRUE, msg |-> "good"]
        ELSE IF allow_romaji /\ rom = KONNICHIWA_ROMAJI
        THEN [passed |-> TRUE, msg |-> "good"]
        ELSE [passed |-> FALSE, msg |-> "hint"]

check_greeting(answer, allow_romaji) ==
    LET hira == to_hiragana_lower(answer)
        hira_nospace == strip_all_spaces(hira)
        rom == KeepLatinLower(lower(normalize_nfkc(answer)))
    IN  IF hira_nospace = KONNICHIHA
        THEN [passed |-> TRUE, msg |-> "good"]
        ELSE IF KONNICHIWA_KANA = hira_nospace
        THEN [passed |-> FALSE, msg |-> "wa_is_written_ha"]
        ELSE IF allow_romaji /\ rom = KONNICHIWA_ROMAJI
        THEN [passed |-> TRUE, msg |-> "good"]
        ELSE [passed |-> FALSE, msg |-> "hint"]

(* -------------------------- check_self_intro -------------------------- *)

\* "." of a regex without DOTALL: any character but a line feed
IsDot(c) == c # \H0A

\* \s*desu[.]?\s*$ of jp_pat, on the text left after the name
JpTail(w) ==
    LET x == From(w, SpaceRun(w) + 1)
        y == From(x, Len(DESU) + 1)
    IN  /\ StartsWith(x, DESU)
        /\ \/ AllSpace(y)
           \/ y # <<>> /\ Head(y) \in {\H3002, \H2E} /\ AllSpace(Tail(y))

\* The ways jp_pat matches the collapsed text s: the pronoun alternative
\* alt, s1 spaces, the topic marker, s2 spaces, a name of n characters, and
\* the tail.
JpMatches(s) ==
    LET pronouns == <<WATASHI, WATASHI_KANJI, BOKU, WATAKUSHI>>
    IN  UNION { LET t == From(s, Len(pronouns[alt]) + 1)
                IN  UNION { LET u == From(t, s1 + 2)
                            IN  UNION { LET v == From(u, s2 + 1)
                                        IN  { [alt |-> alt, s1 |-> s1, s2 |-> s2, n |-> n,
                                               name |-> SubSeq(v, 1, n)] :
                                              n \in { k \in 1..Len(v) :
                                                        /\ \A i \in 1..k : IsDot(v[i])
                                                        /\ JpTail(From(v, k + 1)) } }
                                        : s2 \in 0..SpaceRun(u) }
                            : s1 \in { k \in 0..SpaceRun(t) : k < Len(t) /\ t[k + 1] = HA } }
                : alt \in { a \in 1..4 : StartsWith(s, pronouns[a]) } }

\* The order in which the backtracking matcher tries them: alternatives
\* left to right, \s* greedy (longest first), (.+?) lazy (shortest first).
JpBefore(a, b) ==
    \/ a.alt < b.alt
    \/ a.alt = b.alt /\ a.s1 > b.s1
    \/ a.alt = b.alt /\ a.s1 = b.s1 /\ a.s2 > b.s2
    \/ a.alt = b.alt /\ a.s1 = b.s1 /\ a.s2 = b.s2 /\ a.n <= b.n

\* m = jp_pat.match(...); m.group(1), or None when there is no match
JpGroup1(s) ==
    LET ms == JpMatches(s)
    IN  IF ms = {} THEN None
        ELSE (CHOOSE m \in ms : \A o \in ms : JpBefore(m, o)).name

\* \s+desu\.?$ of the romaji pattern ($ also matches before a final line feed)
RomTail(w) ==
    LET x == From(w, SpaceRun(w) + 1)
        y == From(x, Len(DESU_ROMAJI) + 1)
    IN  /\ SpaceRun(w) >= 1
        /\ StartsWith(x, DESU_ROMAJI)
        /\ y \in {<<>>, <<\H0A>>, <<\H2E>>, <<\H2E, \H0A>>}

RomMatches(s) ==
    LET pronouns == <<WATASHI_ROMAJI, BOKU_ROMAJI, WATAKUSHI_ROMAJI>>
    IN  UNION { LET t == From(s, Len(pronouns[alt]) + 1)
                IN  UNION { LET u == From(t, s1 + 3)
                            IN  UNION { LET v == From(u, s2 + 1)
                                        IN  { [alt |-> alt, s1 |-> s1, s2 |-> s2, n |-> n,
                                               name |-> SubSeq(v, 1, n)] :
                                              n \in { k \in 1..Len(v) :
                                                        /\ \A i \in 1..k : IsDot(v[i])
                                                        /\ RomTail(From(v, k + 1)) } }
                                        : s2 \in 1..SpaceRun(u) }
                            : s1 \in { k \in 1..SpaceRun(t) :
                                         StartsWith(From(t, k + 1), WA_ROMAJI) } }
                : alt \in { a \in 1..3 : StartsWith(s, pronouns[a]) } }

RomGroup1(s) ==
    LET ms == RomMatches(s)
    IN  IF ms = {} THEN None
        ELSE (CHOOSE m \in ms : \A o \in ms : JpBefore(m, o)).name

\* check_self_intro that tries only the romaji path when romaji is allowed
check_self_intro_romaji_instead(answer, allow_romaji) ==
    LET raw == normalize_nfkc(answer)
        name == JpGroup1(collapse_spaces(katakana_to_hiragana(raw)))
        name2 == RomGroup1(collapse_spaces(lower(raw)))
    IN  IF ~allow_romaji /\ name # None /\ name # <<>>
        THEN [passed |-> TRUE, msg |-> "good", name |-> name]
        ELSE IF allow_romaji /\ name2 # None
        THEN [passed |-> TRUE, msg |-> "good", name |-> name2]
        ELSE [passed |-> FALSE, msg |-> "pattern", name |-> None]

check_self_intro(answer, allow_romaji) ==
    LET raw == normalize_nfkc(answer)
        kana == katakana_to_hiragana(raw)
        name == JpGroup1(collapse_spaces(kana))
        name2 == RomGroup1(collapse_spaces(lower(raw)))
    IN  IF name # None /\ name # <<>>
        THEN [passed |-> TRUE, msg |-> "good", name |-> name]
        ELSE IF allow_romaji /\ name2 # None
        THEN [passed |-> TRUE, msg |-> "good", name |-> name2]
        ELSE [passed |-> FALSE, msg |-> "pattern", name |-> None]

(* ---------------------------- check_vowels ---------------------------- *)

\* [t for t in re.split(r"\s+", s) if t]
RECURSIVE SplitSpaces(_, _)
SplitSpaces(cur, s) ==
    IF s = <<>> THEN (IF cur = <<>> THEN <<>> ELSE <<cur>>)
    ELSE IF IsSpace(Head(s))
         THEN (IF cur = <<>> THEN <<>> ELSE <<cur>>) \o SplitSpaces(<<>>, Tail(s))
         ELSE SplitSpaces(Append(cur, Head(s)), Tail(s))

\* the tokens of check_vowels: a single token is re-split into characters
Tokens(hira) ==
    LET tokens == SplitSpaces(<<>>, strip(hira))
    IN  IF Len(tokens) = 1
        THEN [i \in 1..Len(tokens[1]) |-> <<tokens[1][i]>>]
        ELSE tokens

\* Wrong that reports the first differing position only
Wrong_first_only(tokens, idx) ==
    LET bad == { i \in idx..5 : i <= Len(tokens) /\ tokens[i] # target[i] }
    IN  IF bad = {} THEN <<>>
        ELSE LET i == CHOOSE i \in bad : \A j \in bad : i <= j
             IN  << [idx |-> i, exp |-> target[i]] >>

\* the positions (1-based, ascending) whose token differs, with the
\* expected vowel; zip stops at the shorter of the two lists
RECURSIVE Wrong(_, _)
Wrong(tokens, idx) ==
    IF idx > Len(tokens) \/ idx > Len(target) THEN <<>>
    ELSE (IF tokens[idx] # target[idx]
          THEN << [idx |-> idx, exp |-> target[idx]] >> ELSE <<>>)
         \o Wrong(tokens, idx + 1)

\* check_vowels that compares the tokens with the target as sets
check_vowels_unordered(answer, allow_romaji) ==
    LET raw == normalize_nfkc(answer)
        tokens == Tokens(katakana_to_hiragana(raw))
        rom == KeepLatinLower(lower(raw))
        wrong == Wrong(tokens, 1)
    IN  IF Len(tokens) = 5 /\ {tokens[i] : i \in 1..Len(tokens)} = {target[i] : i \in 1..5}
        THEN [passed |-> TRUE, msg |-> [kind |-> "perfect", wrong |-> <<>>]]
        ELSE IF allow_romaji /\ rom = AIUEO_ROMAJI
        THEN [passed |-> TRUE, msg |-> [kind |-> "perfect", wrong |-> <<>>]]
        ELSE IF Len(tokens) = 5 /\ wrong # <<>>
        THEN [passed |-> FALSE, msg |-> [kind |-> "hint", wrong |-> wrong]]
        ELSE [passed |-> FALSE, msg |-> [kind |-> "answer", wrong |-> <<>>]]

check_vowels(answer, allow_romaji) ==
    LET raw == normalize_nfkc(answer)
        hira == katakana_to_hiragana(raw)
        tokens == Tokens(hira)
        rom == KeepLatinLower(lower(raw))
        wrong == Wrong(tokens, 1)
    IN  IF tokens = target
        THEN [passed |-> TRUE, msg |-> [kind |-> "perfect", wrong |-> <<>>]]
        ELSE IF allow_romaji /\ rom = AIUEO_ROMAJI
        THEN [passed |-> TRUE, msg |-> [kind |-> "perfect", wrong |-> <<>>]]
        ELSE IF Len(tokens) = 5 /\ wrong # <<>>
        THEN [passed |-> FALSE, msg |-> [kind |-> "hint", wrong |-> wrong]]
        ELSE [passed |-> FALSE, msg |-> [kind |-> "answer", wrong |-> <<>>]]

(* ------------------------- the learner's answers ---------------------- *)

\* Bounds of the answers the checkers are tried on.
MaxSpaces == 1
MaxVowelTokens == 5

\* n copies of the character c
Rep(c, n) == [i \in 1..n |-> c]

\* runs of 0..MaxSpaces ASCII spaces or ideographic spaces
SpaceRuns == { Rep(c, n) : c \in {\H20, \H3000}, n \in 0..MaxSpaces }

\* all strings of exactly n characters of the alphabet
RECURSIVE StringsOfLen(_, _)
StringsOfLen(alphabet, n) ==
    IF n = 0 THEN { <<>> }
    ELSE { <<c>> \o t : c \in alphabet, t \in StringsOfLen(alphabet, n - 1) }

StringsUpTo(alphabet, n) == UNION { StringsOfLen(alphabet, k) : k \in 0..n }

\* Greetings: a stem (hiragana, katakana, half-width katakana, romaji in
\* lower case, upper case and full-width), spaces, an ending and a mark.
GreetingStems ==
    { <<\H3053, \H3093, \H306B, \H3061>>, <<\H30B3, \H30F3, \H30CB, \H30C1>>,
      <<\HFF7A, \HFF9D, \HFF86, \HFF81>>,
      <<\H6B, \H6F, \H6E, \H6E, \H69, \H63, \H68, \H69>>,
      <<\H4B, \H4F, \H4E, \H4E, \H49, \H43, \H48, \H49>>,
      <<\HFF4B, \H6F, \H6E, \H6E, \H69, \H63, \H68, \H69>> }
GreetingEnds ==
    { <<>>, <<\H306F>>, <<\H30CF>>, <<\HFF8A>>, <<\H308F>>, <<\H30EF>>,
      <<\H77, \H61>>, <<\H68, \H61>> }
GreetingMarks == { <<>>, <<\H21>>, <<\H3002>> }
GreetingAnswers ==
    { Concat(<<lead, stem, sep, end, mark>>) :
        lead \in SpaceRuns, stem \in GreetingStems, sep \in SpaceRuns,
        end \in GreetingEnds, mark \in GreetingMarks }

\* Self-introductions: pronoun (hiragana, kanji, katakana boku, romaji with
\* a capital), spaces, topic marker, spaces, name, spaces, copula (hiragana,
\* katakana or romaji), full stop; every part may be missing.
IntroPronouns ==
    { <<>>, WATASHI, WATASHI_KANJI, <<\H30DC, \H30AF>>, WATAKUSHI,
      <<\H57, \H61, \H74, \H61, \H73, \H68, \H69>> }
IntroMarkers == { <<>>, <<\H306F>>, <<\H30CF>>, WA_ROMAJI }
\* the names Bobu and Hanako in katakana
BOBU == <<\H30DC, \H30D6>>
HANAKO == <<\H30CF, \H30CA, \H30B3>>
\* names: none, Bobu, Hanako, bob, and short strings of ha (katakana) and b
IntroNames ==
    { <<>>, BOBU, HANAKO, <<\H62, \H6F, \H62>>, <<\H30CF>>, <<\H62>>,
      <<\H30CF, \H62>> }
IntroCopulas == { <<>>, DESU, <<\H30C7, \H30B9>>, DESU_ROMAJI }
IntroStops == { <<>>, <<\H3002>>, <<\H2E>> }
IntroSpaces == { Rep(\H20, n) : n \in 0..MaxSpaces }
OptionalSpace == { <<>>, <<\H20>> }
IntroAnswers ==
    { Concat(<<pron, s1, marker, s2, name, s3, copula, stop>>) :
        pron \in IntroPronouns, s1 \in OptionalSpace, marker \in IntroMarkers,
        s2 \in IntroSpaces, name \in IntroNames, s3 \in IntroSpaces,
        copula \in IntroCopulas, stop \in IntroStops }

\* Vowels: up to MaxVowelTokens hiragana vowels, every order and repetition,
\* written contiguously or with a space between them; the target in
\* katakana, in half-width katakana and in romaji; and the target with
\* irregular white space (tab, ideographic space, line feed, runs).
RECURSIVE JoinWith(_, _)
JoinWith(tokens, sep) ==
    IF tokens = <<>> THEN <<>>
    ELSE IF Len(tokens) = 1 THEN Head(tokens)
    ELSE Head(tokens) \o sep \o JoinWith(Tail(tokens), sep)

VowelLists ==
    UNION { [1..n -> {target[i] : i \in 1..5}] : n \in 0..MaxVowelTokens }
    \cup { [i \in 1..5 |-> <<target[i][1] + \H60>>],
           << <<\HFF71>>, <<\HFF72>>, <<\HFF73>>, <<\HFF74>>, <<\HFF75>> >>,
           << <<\H61>>, <<\H69>>, <<\H75>>, <<\H65>>, <<\H6F>> >>,
           << <<\H41>>, <<\H69>>, <<\H75>>, <<\H65>>, <<\H6F>> >>,
           << <<\H3042, \H3044>>, <<\H3046>>, <<\H3048>>, <<\H304A>>, <<\H304A>> >> }
VowelAnswers ==
    { JoinWith(tokens, sep) : tokens \in VowelLists, sep \in OptionalSpace }
    \cup { <<\H20, \H3042, \H09, \H3044, \H3000, \H3046, \H20, \H20, \H3048,
             \H0A, \H304A, \H20>>,
           <<\H3042, \H3044, \H20, \H3046, \H3048, \H304A>> }

\* Inputs of the normalizer: strings of up to MaxNormLen characters over
\* J, j, the combining caron, j-with-caron, katakana ko, half-width ko,
\* full-width J and small katakana ke.
MaxNormLen == 3
NormAlphabet == {\H4A, \H6A, \H030C, \H01F0, \H30B3, \HFF7A, \HFF2A, \H30F6}
NormInputs == StringsUpTo(NormAlphabet, MaxNormLen)

\* How often the normalizer is applied to its own output.
MaxPasses == 2

\* What the learner types at the prompt of a lesson (before input().strip()).
SessionInputs ==
    { <<>>,
      KONNICHIHA, <<\H20>> \o KONNICHIWA_KANA \o <<\H20>>, KONNICHIWA_ROMAJI,
      WATASHI \o <<HA, \H20, \H30DC, \H30D6, \H20>> \o DESU \o <<\H3002>>,
      WATASHI \o <<\H20, \H30DC, \H30D6, \H20>> \o DESU,
      WATASHI_ROMAJI \o <<\H20>> \o WA_ROMAJI \o <<\H20, \H62, \H6F, \H62, \H20>>
          \o DESU_ROMAJI \o <<\H2E>>,
      JoinWith(target, <<\H20>>),
      <<\H3042, \H20, \H3046, \H20, \H3044, \H20, \H3048, \H20, \H304A, \H0A>>,
      AIUEO_ROMAJI }

(* ------------------------------- state -------------------------------- *)

VARIABLES
    answer,        \* the argument answer of a checker call
    allow_romaji,  \* the argument allow_romaji (args.allow_romaji)
    fn,            \* the checker that was called, "none" before the call
    result,        \* what the call returned
    norm,          \* the successive outputs of to_hiragana_lower
    pc,            \* where run_lesson_one / Session.ask stands
    q,             \* the question being asked, 1..3
    tries,         \* Session.ask: tries
    score,         \* Session.score
    total,         \* Session.total
    user,          \* Session.ask: user
    ok,            \* Session.ask: ok
    msg,           \* Session.ask: msg
    said,          \* what Session.ask printed for the current question
    reads,         \* input() calls of the current question
    calls          \* checker calls of the current question

harness == <<answer, fn, result>>
session == <<pc, q, tries, score, total, user, ok, msg, said, reads, calls>>
vars == <<answer, allow_romaji, fn, result, norm, pc, q, tries, score, total,
          user, ok, msg, said, reads, calls>>

NoResult == [passed |-> FALSE, msg |-> "none"]

\* no checker call under way
HarnessOff == answer = <<>> /\ fn = "none" /\ result = NoResult

\* no lesson under way
SessionOff ==
    /\ pc = "off" /\ q = 0 /\ tries = 0 /\ score = 0 /\ total = 0
    /\ user = <<>> /\ ok = FALSE /\ msg = "none" /\ said = <<>>
    /\ reads = 0 /\ calls = 0

(* --------------------------- checker calls ---------------------------- *)

CallGreeting ==
    /\ fn = "none"
    /\ fn' = "check_greeting"
    /\ result' = check_greeting(answer, allow_romaji)
    /\ UNCHANGED <<answer, allow_romaji, norm>> /\ UNCHANGED session

CallSelfIntro ==
    /\ fn = "none"
    /\ fn' = "check_self_intro"
    /\ result' = check_self_intro(answer, allow_romaji)
    /\ UNCHANGED <<answer, allow_romaji, norm>> /\ UNCHANGED session

CallVowels ==
    /\ fn = "none"
    /\ fn' = "check_vowels"
    /\ result' = check_vowels(answer, allow_romaji)
    /\ UNCHANGED <<answer, allow_romaji, norm>> /\ UNCHANGED session

InitGreeting ==
    /\ answer \in GreetingAnswers
    /\ allow_romaji \in BOOLEAN
    /\ fn = "none" /\ result = NoResult /\ norm = <<>>
    /\ SessionOff

InitSelfIntro ==
    /\ answer \in IntroAnswers
    /\ allow_romaji \in BOOLEAN
    /\ fn = "none" /\ result = NoResult /\ norm = <<>>
    /\ SessionOff

InitVowels ==
    /\ answer \in VowelAnswers
    /\ allow_romaji \in BOOLEAN
    /\ fn = "none" /\ result = NoResult /\ norm = <<>>
    /\ SessionOff

InitCheck ==
    /\ answer \in GreetingAnswers \cup IntroAnswers \cup VowelAnswers
    /\ allow_romaji \in BOOLEAN
    /\ fn = "none" /\ result = NoResult /\ norm = <<>>
    /\ SessionOff

NextCheck == CallGreeting \/ CallSelfIntro \/ CallVowels

SpecGreeting == InitGreeting /\ [][CallGreeting]_vars
SpecSelfIntro == InitSelfIntro /\ [][CallSelfIntro]_vars
SpecVowels == InitVowels /\ [][CallVowels]_vars
SpecCheck == InitCheck /\ [][NextCheck]_vars

(* ------------------------- normalizing twice -------------------------- *)

\* to_hiragana_lower applied to the input, then to its own last output
Normalize ==
    /\ Len(norm) < MaxPasses
    /\ norm' = Append(norm, to_hiragana_lower(IF norm = <<>> THEN answer
                                              ELSE norm[Len(norm)]))
    /\ UNCHANGED <<answer, allow_romaji, fn, result>> /\ UNCHANGED session

InitNorm ==
    /\ answer \in NormInputs
    /\ allow_romaji = FALSE
    /\ fn = "none" /\ result = NoResult /\ norm = <<>>
    /\ SessionOff

SpecNorm == InitNorm /\ [][Normalize]_vars

(* ------------------- run_lesson_one and Session.ask ------------------- *)

\* q1_checker, q2_checker, q3_checker: the checker of question qn, which
\* returns (ok, msg); q2_checker drops the extracted name
Checker(qn, u) ==
    IF qn = 1 THEN check_greeting(u, allow_romaji)
    ELSE IF qn = 2
    THEN LET r == check_self_intro(u, allow_romaji)
         IN  [passed |-> r.passed, msg |-> r.msg]
    ELSE check_vowels(u, allow_romaji)

\* Session.ask returns to run_lesson_one: the next s.ask, or the summary
\* after the third
Return ==
    IF q < 3
    THEN pc' = "ask" /\ q' = q + 1
    ELSE pc' = "summary" /\ q' = q

\* Session(...); the introduction of run_lesson_one, up to the first s.ask
Intro ==
    /\ pc = "intro"
    /\ pc' = "ask" /\ q' = 1
    /\ UNCHANGED <<tries, score, total, user, ok, msg, said, reads, calls>>
    /\ UNCHANGED <<allow_romaji, norm>> /\ UNCHANGED harness

\* Session.ask entered: tries = 0; self.total += 1 (user, ok and msg are
\* locals of the call, not yet bound)
AskBegin ==
    /\ pc = "ask"
    /\ tries' = 0
    /\ total' = total + 1
    /\ said' = <<>> /\ reads' = 0 /\ calls' = 0
    /\ user' = <<>> /\ ok' = FALSE /\ msg' = "none"
    /\ pc' = "prompt"
    /\ UNCHANGED <<q, score>>
    /\ UNCHANGED <<allow_romaji, norm>> /\ UNCHANGED harness

\* ReadAnswer that counts the question again on every attempt
ReadAnswer_counts_total ==
    /\ pc = "prompt"
    /\ \E typed \in SessionInputs : user' = strip(typed)
    /\ said' = Append(said, "prompt")
    /\ reads' = reads + 1
    /\ total' = total + 1
    /\ pc' = "check"
    /\ UNCHANGED <<q, tries, score, ok, msg, calls>>
    /\ UNCHANGED <<allow_romaji, norm>> /\ UNCHANGED harness

\* self.say(prompt); user = input("> ").strip()
ReadAnswer ==
    /\ pc = "prompt"
    /\ \E typed \in SessionInputs : user' = strip(typed)
    /\ said' = Append(said, "prompt")
    /\ reads' = reads + 1
    /\ pc' = "check"
    /\ UNCHANGED <<q, tries, score, total, ok, msg, calls>>
    /\ UNCHANGED <<allow_romaji, norm>> /\ UNCHANGED harness

\* KeyboardInterrupt inside the try of Session.ask: say it and return
InterruptAtPrompt ==
    /\ pc = "prompt"
    /\ said' = Append(said, "interrupted")
    /\ Return
    /\ UNCHANGED <<tries, score, total, user, ok, msg, reads, calls>>
    /\ UNCHANGED <<allow_romaji, norm>> /\ UNCHANGED harness

\* input() raises EOFError at the end of the input: neither Session.ask nor
\* main catches it, and the program ends with a traceback
EndOfInput ==
    /\ pc = "prompt"
    /\ said' = Append(said, "prompt")
    /\ pc' = "eof_error"
    /\ UNCHANGED <<q, tries, score, total, user, ok, msg, reads, calls>>
    /\ UNCHANGED <<allow_romaji, norm>> /\ UNCHANGED harness

\* ok, msg = checker(user)
Check ==
    /\ pc = "check"
    /\ LET r == Checker(q, user)
       IN  ok' = r.passed /\ msg' = r.msg
    /\ calls' = calls + 1
    /\ pc' = "feedback"
    /\ UNCHANGED <<q, tries, score, total, user, said, reads>>
    /\ UNCHANGED <<allow_romaji, norm>> /\ UNCHANGED harness

\* if ok: self.say(msg); self.score += 1; break
Passed ==
    /\ pc = "feedback" /\ ok
    /\ said' = Append(said, "msg")
    /\ score' = score + 1
    /\ Return
    /\ UNCHANGED <<tries, total, user, ok, msg, reads, calls>>
    /\ UNCHANGED <<allow_romaji, norm>> /\ UNCHANGED harness

\* Failed that shows the model answer after the first failure already
Failed_reveal_after_first ==
    /\ pc = "feedback" /\ ~ok
    /\ tries' = tries + 1
    /\ IF tries' = 1
       THEN /\ said' = said \o <<"msg", "reveal", "last">>
            /\ pc' = "prompt" /\ q' = q
       ELSE IF tries' = 2
       THEN /\ said' = said \o <<"msg", "retry">>
            /\ pc' = "prompt" /\ q' = q
       ELSE /\ said' = said \o <<"skip", "answer_example">>
            /\ Return
    /\ UNCHANGED <<score, total, user, ok, msg, reads, calls>>
    /\ UNCHANGED <<allow_romaji, norm>> /\ UNCHANGED harness

\* tries += 1 and the three branches on tries; reveal is a non-empty string
\* for each of the three questions
Failed ==
    /\ pc = "feedback" /\ ~ok
    /\ tries' = tries + 1
    /\ IF tries' = 1
       THEN /\ said' = said \o <<"msg", "retry">>
            /\ pc' = "prompt" /\ q' = q
       ELSE IF tries' = 2
       THEN /\ said' = said \o <<"msg", "reveal", "last">>
            /\ pc' = "prompt" /\ q' = q
       ELSE /\ said' = said \o <<"skip", "answer_example">>
            /\ Return
    /\ UNCHANGED <<score, total, user, ok, msg, reads, calls>>
    /\ UNCHANGED <<allow_romaji, norm>> /\ UNCHANGED harness

\* the summary of run_lesson_one; return 0
Summary ==
    /\ pc = "summary"
    /\ pc' = "done"
    /\ UNCHANGED <<q, tries, score, total, user, ok, msg, said, reads, calls>>
    /\ UNCHANGED <<allow_romaji, norm>> /\ UNCHANGED harness

\* KeyboardInterrupt anywhere outside the try of Session.ask: it reaches
\* main, which prints a goodbye and returns 130
InterruptElsewhere ==
    /\ pc \in {"intro", "ask", "check", "feedback", "summary"}
    /\ pc' = "exit130"
    /\ UNCHANGED <<q, tries, score, total, user, ok, msg, said, reads, calls>>
    /\ UNCHANGED <<allow_romaji, norm>> /\ UNCHANGED harness

Init ==
    /\ allow_romaji \in BOOLEAN
    /\ HarnessOff /\ norm = <<>>
    /\ pc = "intro" /\ q = 0 /\ tries = 0 /\ score = 0 /\ total = 0
    /\ user = <<>> /\ ok = FALSE /\ msg = "none" /\ said = <<>>
    /\ reads = 0 /\ calls = 0

Next ==
    \/ Intro
    \/ AskBegin
    \/ ReadAnswer
    \/ InterruptAtPrompt
    \/ EndOfInput
    \/ Check
    \/ Passed
    \/ Failed
    \/ Summary
    \/ InterruptElsewhere

Spec == Init /\ [][Next]_vars

(* ------------------------------- claims ------------------------------- *)

\* the Japanese first-person pronouns of the answers, as typed
JpPronounsTyped == { WATASHI, WATASHI_KANJI, <<\H30DC, \H30AF>>, WATAKUSHI }
\* the greeting in full-width and in half-width katakana
KatakanaGreeting == <<\H30B3, \H30F3, \H30CB, \H30C1, \H30CF>>
HalfWidthGreeting == <<\HFF7A, \HFF9D, \HFF86, \HFF81, \HFF8A>>

\* Answers with pronoun, topic marker and copula but nothing at all in the
\* place of the name.
NoNameAnswers ==
    { Concat(<<pron, s1, marker, s2, copula, stop>>) :
        pron \in JpPronounsTyped, s1 \in OptionalSpace,
        marker \in { <<\H306F>>, <<\H30CF>> }, s2 \in IntroSpaces,
        copula \in { DESU, <<\H30C7, \H30B9>> }, stop \in IntroStops }

\* C1: check_self_intro never passes an answer that supplies no name between
\* the topic marker and the copula: such an answer returns passed = FALSE
\* and no extracted name.
C1_EmptyNameFails ==
    (fn = "check_self_intro" /\ answer \in NoNameAnswers)
        => (~result.passed /\ result.name = None)

\* C2: with romaji disallowed, check_greeting passes exactly when the
\* normalized, kana-folded, lower-cased, space-free answer is the greeting;
\* romaji "konnichiwa" passes exactly when romaji is allowed; the katakana
\* spellings (full-width and half-width) pass.
C2_GreetingWithoutRomaji ==
    fn = "check_greeting" =>
        /\ ~allow_romaji =>
              (result.passed <=>
                  strip_all_spaces(to_hiragana_lower(answer)) = KONNICHIHA)
        /\ answer = KONNICHIWA_ROMAJI => (result.passed <=> allow_romaji)
        /\ answer \in {KatakanaGreeting, HalfWidthGreeting} => result.passed

\* C2 witness: the half-width katakana greeting passed with romaji disallowed.
C2_Witness ==
    /\ fn = "check_greeting" /\ ~allow_romaji
    /\ answer = HalfWidthGreeting /\ result.passed

\* C3: an answer whose normalized, folded, space-free form is the greeting
\* written with wa fails with the message about wa/ha, whatever allow_romaji
\* is; never with the generic hint.
C3_CommonMistake ==
    (/\ fn = "check_greeting"
     /\ strip_all_spaces(to_hiragana_lower(answer)) = KONNICHIWA_KANA)
        => (~result.passed /\ result.msg = "wa_is_written_ha")

\* C3 witness: the mistake typed in katakana with a space, romaji allowed.
C3_Witness ==
    /\ fn = "check_greeting" /\ allow_romaji
    /\ answer = <<\H30B3, \H30F3, \H30CB, \H30C1, \H20, \H30EF>>
    /\ result.msg = "wa_is_written_ha"

\* Answers made of a pronoun, the name Bobu or Hanako and the copula, with
\* no topic marker typed between pronoun and name.
NoMarkerAnswers ==
    { Concat(<<pron, s1, name, s3, copula, stop>>) :
        pron \in JpPronounsTyped, s1 \in OptionalSpace,
        name \in {BOBU, HANAKO}, s3 \in IntroSpaces,
        copula \in { DESU, <<\H30C7, \H30B9>> }, stop \in IntroStops }

\* C4: check_self_intro fails, with no name, every answer in which the topic
\* marker is missing between the pronoun and the name: pronoun, name and
\* copula alone never pass.
C4_MissingMarkerFails ==
    (fn = "check_self_intro" /\ answer \in NoMarkerAnswers)
        => (~result.passed /\ result.name = None)

\* the characters of the answer without its white space
Letters(a) == strip_all_spaces(a)
VowelChars == { target[i][1] : i \in 1..5 }
\* the answer is the five vowels in some order, each once
IsVowelPermutation(a) ==
    /\ Len(Letters(a)) = 5
    /\ { Letters(a)[i] : i \in 1..5 } = VowelChars

\* C5: with romaji disallowed, check_vowels passes exactly when the tokens
\* of the normalized, folded answer are the five vowels in order: the target
\* passes spaced and contiguous, every other permutation fails.
C5_VowelsInOrder ==
    (fn = "check_vowels" /\ ~allow_romaji) =>
        /\ result.passed <=>
              Tokens(katakana_to_hiragana(normalize_nfkc(answer))) = target
        /\ answer \in { JoinWith(target, <<>>), JoinWith(target, <<\H20>>) }
              => result.passed
        /\ (IsVowelPermutation(answer) /\ Letters(answer) # JoinWith(target, <<>>))
              => ~result.passed

\* C5 witness: the contiguous answer passed with romaji disallowed.
C5_Witness ==
    /\ fn = "check_vowels" /\ ~allow_romaji
    /\ answer = JoinWith(target, <<>>) /\ result.passed

\* the answer of the example: a u i e o in hiragana, spaced
SwappedVowels ==
    <<\H3042, \H20, \H3046, \H20, \H3044, \H20, \H3048, \H20, \H304A>>

\* C6: when check_vowels fails on an answer of exactly five tokens, the hint
\* lists, in ascending order, exactly the positions whose token differs,
\* each with the expected vowel; any other token count gets the generic
\* answer message.  Holds for both values of allow_romaji.
C6_HintListsEveryMismatch ==
    (fn = "check_vowels" /\ ~result.passed) =>
        LET tokens == Tokens(katakana_to_hiragana(normalize_nfkc(answer)))
            wrong == result.msg.wrong
        IN  /\ Len(tokens) = 5 =>
                /\ result.msg.kind = "hint"
                /\ \A i \in 1..5 :
                      tokens[i] # target[i] <=>
                          \E k \in 1..Len(wrong) :
                              wrong[k] = [idx |-> i, exp |-> target[i]]
                /\ \A k \in 1..Len(wrong) : wrong[k].idx \in 1..5
                /\ \A k, l \in 1..Len(wrong) : k < l => wrong[k].idx < wrong[l].idx
            /\ Len(tokens) # 5 =>
                  result.msg = [kind |-> "answer", wrong |-> <<>>]
            /\ answer = SwappedVowels =>
                  wrong = << [idx |-> 2, exp |-> <<\H3044>>],
                             [idx |-> 3, exp |-> <<\H3046>>] >>

\* C6 witness: the example failed with romaji allowed, with a hint.
C6_Witness ==
    /\ fn = "check_vowels" /\ allow_romaji /\ answer = SwappedVowels
    /\ ~result.passed /\ Len(result.msg.wrong) = 2

\* the number of times Session.ask printed the line tag for this question
Count(tag) == Cardinality({ i \in 1..Len(said) : said[i] = tag })

\* C7: per question, Session.ask reads a fresh answer for each checker call
\* and calls the checker at most 3 times; a passing attempt ends the
\* question; the model answer is shown after the 2nd failure, not after the
\* 1st, and the learner is asked once more; after the 3rd call the question
\* ends whatever the outcome.
C7_AtMostThreeAttempts ==
    /\ [](/\ calls <= 3 /\ reads <= 3 /\ calls <= reads
          /\ pc = "check" => reads = calls + 1
          /\ pc = "prompt" =>
                /\ tries \in 0..2 /\ reads = tries /\ calls = tries
                /\ Count("reveal") = (IF tries = 2 THEN 1 ELSE 0))
    /\ [][/\ calls' = calls + 1 => reads = calls + 1
          /\ (pc = "feedback" /\ ok) => pc' \in {"ask", "summary", "exit130"}
          /\ (pc = "feedback" /\ calls = 3) => pc' \in {"ask", "summary", "exit130"}
          /\ (pc = "feedback" /\ ~ok /\ calls < 3) => pc' \in {"prompt", "exit130"}
         ]_vars

\* C7 witness: a question ended by its third failed attempt.
C7_Witness ==
    /\ pc \in {"ask", "summary"} /\ calls = 3 /\ tries = 3 /\ ~ok
    /\ said[Len(said)] = "answer_example"

\* C8: to_hiragana_lower is idempotent: applied to its own output it returns
\* that output.
C8_Idempotent == Len(norm) >= 2 => norm[2] = norm[1]

\* the checker fn applied to the answer with romaji allowed
WithRomaji ==
    IF fn = "check_greeting" THEN check_greeting(answer, TRUE)
    ELSE IF fn = "check_self_intro" THEN check_self_intro(answer, TRUE)
    ELSE check_vowels(answer, TRUE)

\* C9: an answer that passes a checker with romaji disallowed passes it with
\* romaji allowed, and check_self_intro extracts the same name.
C9_RomajiOnlyAdds ==
    (fn # "none" /\ ~allow_romaji /\ result.passed) =>
        /\ WithRomaji.passed
        /\ fn = "check_self_intro" => WithRomaji.name = result.name

\* C9 witness: a self-introduction passed with romaji disallowed.
C9_Witness ==
    /\ fn = "check_self_intro" /\ ~allow_romaji /\ result.passed
    /\ result.name # None

\* C10: 0 <= score <= total <= 3 always; entering Session.ask, and nothing
\* else, raises total, by 1; score rises by 1 at most once per question and
\* only right after a checker call that passed; an interrupt at the prompt
\* leaves score and total alone and the lesson goes on with the next
\* question (or the summary after the third).
C10_Tallies ==
    /\ [](/\ 0 <= score /\ score <= total /\ total <= 3
          /\ pc \in {"prompt", "check", "feedback"} => (score < total /\ total = q)
          /\ pc = "ask" => total = q - 1)
    /\ [][/\ total' \in {total, total + 1}
          /\ total' = total + 1 <=> (pc = "ask" /\ pc' = "prompt")
          /\ score' \in {score, score + 1}
          /\ score' = score + 1 => (pc = "feedback" /\ ok /\ calls >= 1)
          /\ (pc = "prompt" /\ said' = Append(said, "interrupted")) =>
                /\ score' = score /\ total' = total
                /\ IF q < 3 THEN pc' = "ask" /\ q' = q + 1 ELSE pc' = "summary"
         ]_vars

\* C10 witness: the first question was interrupted at the prompt, and the
\* lesson stands before the second with total 1 and score 0.
C10_Witness ==
    /\ pc = "ask" /\ q = 2 /\ total = 1 /\ score = 0
    /\ said = <<"interrupted">>

====
